---- MODULE Spec2Model ----
(***************************************************************************)
(* Model of src/challenge.js: the validate / link / top-up / categorize /  *)
(* render pipeline for companies and users, and the output verifier.       *)
(*                                                                         *)
(* Objects are identified by `ref`, their position in the input array (a   *)
(* JavaScript object keeps its identity while arrays are sorted in place). *)
(* Text that the code compares (last_name, file contents) is a sequence of *)
(* UTF-16 code units; text that is only copied is a TLA+ string.           *)
(***************************************************************************)
EXTENDS Integers, Sequences, FiniteSets, TLC

VARIABLES readCompanies, readUsers, companies, users, pc, exitCode, exitVia,
          outputWritten, outputFile, vpc, output, exampleOutput, report

vars == <<readCompanies, readUsers, companies, users, pc, exitCode, exitVia,
          outputWritten, outputFile, vpc, output, exampleOutput, report>>

pipelineVars == <<readCompanies, readUsers, companies, users, pc, exitCode,
                  exitVia, outputWritten, outputFile>>

verifierVars == <<vpc, output, exampleOutput, report>>

(***************************************************************************)
(* Bounds of the model.                                                    *)
(***************************************************************************)
MaxCompanies == 2
MaxUsers == 2
MaxSortUsers == 3
MaxTextLen == 3

SeqsUpTo(S, n) == UNION {[1..k -> S] : k \in 0..n}

Range(s) == {s[i] : i \in 1..Len(s)}

(***************************************************************************)
(* Text as code units.                                                     *)
(***************************************************************************)
NL == 10
AT == 64
DOT == 46

\* JavaScript's < on strings: lexicographic order on UTF-16 code units.
RECURSIVE StrLess(_, _)
StrLess(a, b) ==
    IF b = <<>> THEN FALSE
    ELSE IF a = <<>> THEN TRUE
    ELSE IF Head(a) < Head(b) THEN TRUE
    ELSE IF Head(a) > Head(b) THEN FALSE
    ELSE StrLess(Tail(a), Tail(b))

(***************************************************************************)
(* Input records (the parsed JSON).                                        *)
(***************************************************************************)
Jane == <<106, AT, 120, DOT, 99, 111>>
NotAnEmail == <<106, 120, DOT, 99, 111>>

CompanyIds == {1, 2}
TopUps == {0, 5}
TokenBalances == {3}
UserCompanyIds == {1, 2}
LastB == <<66>>
LastA == <<97>>
LastAb == <<97, 98>>

\* Records that pass their schema.
ValidRawCompanies ==
    [id : CompanyIds, name : {"Acme"}, top_up : TopUps, email_status : BOOLEAN]

ValidRawUsers ==
    [id : {1}, first_name : {"Jane"}, last_name : {LastB}, email : {Jane},
     email_status : BOOLEAN, active_status : BOOLEAN, tokens : TokenBalances,
     company_id : UserCompanyIds]

\* Inputs of the validation specification: records that break one rule of
\* their schema each, next to records that break none.
GoodCompany == [id |-> 1, name |-> "Acme", top_up |-> 5, email_status |-> TRUE]

GoodUser ==
    [id |-> 1, first_name |-> "Jane", last_name |-> LastB, email |-> Jane,
     email_status |-> TRUE, active_status |-> TRUE, tokens |-> 3,
     company_id |-> 1]

CheckedRawCompanies ==
    { GoodCompany,
      [GoodCompany EXCEPT !.id = 0],
      [GoodCompany EXCEPT !.name = ""],
      [GoodCompany EXCEPT !.top_up = -1] }

CheckedRawUsers ==
    { GoodUser,
      [GoodUser EXCEPT !.active_status = FALSE],
      [GoodUser EXCEPT !.id = 0],
      [GoodUser EXCEPT !.first_name = ""],
      [GoodUser EXCEPT !.last_name = <<>>],
      [GoodUser EXCEPT !.email = NotAnEmail],
      [GoodUser EXCEPT !.tokens = -1],
      [GoodUser EXCEPT !.company_id = 0] }

\* Inputs of the ordering specification: several last names; company 1
\* emails its users and company 2 does not.
SortRawCompanies ==
    { [id |-> 1, name |-> "Acme", top_up |-> 5, email_status |-> TRUE],
      [id |-> 2, name |-> "Acme", top_up |-> 5, email_status |-> FALSE] }

SortRawUsers ==
    [id : {1}, first_name : {"Jane"}, last_name : {LastB, LastA, LastAb},
     email : {Jane}, email_status : {TRUE}, active_status : {TRUE},
     tokens : TokenBalances, company_id : UserCompanyIds]

(***************************************************************************)
(* Schemas and validateSchema.                                             *)
(***************************************************************************)
\* Joi.string().email(): one "@", a non-empty local part, a domain of at
\* least two non-empty segments.
IsEmail(e) ==
    /\ Cardinality({i \in 1..Len(e) : e[i] = AT}) = 1
    /\ \E i \in 2..Len(e) - 1 :
          /\ e[i] = AT
          /\ e[i + 1] # DOT
          /\ e[Len(e)] # DOT
          /\ \E j \in i + 2..Len(e) - 1 : e[j] = DOT

companySchema(data) ==
    /\ data.id \in Int /\ data.id >= 1
    /\ data.name # ""
    /\ data.top_up \in Int /\ data.top_up >= 0
    /\ data.email_status \in BOOLEAN

userSchema(data) ==
    /\ data.id \in Int /\ data.id >= 1
    /\ data.first_name # ""
    /\ data.last_name # <<>>
    /\ IsEmail(data.email)
    /\ data.email_status \in BOOLEAN
    /\ data.active_status \in BOOLEAN
    /\ data.tokens \in Int /\ data.tokens >= 0
    /\ data.company_id \in Int /\ data.company_id >= 1

\* A validateSchema that logs the error and carries on.
validateSchemaNoExit(schemaAccepts) == FALSE

\* TRUE when validateSchema ends the process (process.exit(1)).
validateSchema(schemaAccepts) == ~schemaAccepts

(***************************************************************************)
(* Domain model.                                                           *)
(***************************************************************************)
Company(ref, data) ==
    [ref |-> ref, id |-> data.id, name |-> data.name, top_up |-> data.top_up,
     email_status |-> data.email_status, users |-> <<>>,
     usersEmailed |-> <<>>, usersNotEmailed |-> <<>>]

User(ref, data) ==
    [ref |-> ref, id |-> data.id, first_name |-> data.first_name,
     last_name |-> data.last_name, email |-> data.email,
     email_status |-> data.email_status,
     active_status |-> data.active_status, tokens |-> data.tokens,
     company_id |-> data.company_id]

\* The user object with identity r.
UserOf(us, r) == CHOOSE u \in Range(us) : u.ref = r

Refs(us) == [i \in 1..Len(us) |-> us[i].ref]

\* Company.getUsers missing the active_status test.
getUsersAnyStatus(company, us) ==
    SelectSeq(us, LAMBDA user : user.company_id = company.id)

\* Company.getUsers missing the company_id test.
getUsersAnyCompany(company, us) ==
    SelectSeq(us, LAMBDA user : user.active_status)

getUsers(company, us) ==
    SelectSeq(us, LAMBDA user :
                     user.company_id = company.id /\ user.active_status)

(***************************************************************************)
(* sortData: Array.prototype.sort is stable, so each sort is an insertion  *)
(* that places an element after every element the comparator does not put  *)
(* behind it.                                                              *)
(***************************************************************************)
compareId(a, b) == a.id - b.id

compareLastName(a, b) ==
    IF StrLess(a.last_name, b.last_name) THEN -1
    ELSE IF StrLess(b.last_name, a.last_name) THEN 1
    ELSE 0

RECURSIVE InsertCompany(_, _)
InsertCompany(s, x) ==
    IF s = <<>> THEN <<x>>
    ELSE IF compareId(Head(s), x) <= 0
         THEN <<Head(s)>> \o InsertCompany(Tail(s), x)
         ELSE <<x>> \o s

RECURSIVE sortCompaniesFrom(_, _)
sortCompaniesFrom(sorted, rest) ==
    IF rest = <<>> THEN sorted
    ELSE sortCompaniesFrom(InsertCompany(sorted, Head(rest)), Tail(rest))

sortCompanies(cs) == sortCompaniesFrom(<<>>, cs)

RECURSIVE InsertUser(_, _)
InsertUser(s, x) ==
    IF s = <<>> THEN <<x>>
    ELSE IF compareLastName(Head(s), x) <= 0
         THEN <<Head(s)>> \o InsertUser(Tail(s), x)
         ELSE <<x>> \o s

\* An insertion that puts an element before the elements equal to it.
RECURSIVE InsertUserBeforeEqual(_, _)
InsertUserBeforeEqual(s, x) ==
    IF s = <<>> THEN <<x>>
    ELSE IF compareLastName(Head(s), x) < 0
         THEN <<Head(s)>> \o InsertUserBeforeEqual(Tail(s), x)
         ELSE <<x>> \o s

RECURSIVE sortUsersFrom(_, _)
sortUsersFrom(sorted, rest) ==
    IF rest = <<>> THEN sorted
    ELSE sortUsersFrom(InsertUser(sorted, Head(rest)), Tail(rest))

RECURSIVE sortUsersUnstableFrom(_, _)
sortUsersUnstableFrom(sorted, rest) ==
    IF rest = <<>> THEN sorted
    ELSE sortUsersUnstableFrom(InsertUserBeforeEqual(sorted, Head(rest)),
                               Tail(rest))

\* A sort that does not keep equal last names in their original order.
sortUsersUnstable(us) == sortUsersUnstableFrom(<<>>, us)

sortUsers(us) == sortUsersFrom(<<>>, us)

(***************************************************************************)
(* processCompaniesAndUsers: link and top up, company by company, then     *)
(* categorize.                                                             *)
(***************************************************************************)
RECURSIVE linkAndTopUp(_, _, _)
linkAndTopUp(cs, us, i) ==
    IF i > Len(cs) THEN [companies |-> cs, users |-> us]
    ELSE LET company == cs[i]
             usersInCompany == Refs(getUsers(company, us))
             toppedUp ==
                 [k \in 1..Len(us) |->
                     IF us[k].ref \in Range(usersInCompany)
                        /\ us[k].active_status
                     THEN [us[k] EXCEPT !.tokens = @ + company.top_up]
                     ELSE us[k]]
         IN  linkAndTopUp([cs EXCEPT ![i].users = usersInCompany],
                          toppedUp, i + 1)

\* companies.find(company => company.id === id): the index of the first
\* match, 0 for undefined.
find(cs, id) ==
    IF \E i \in 1..Len(cs) : cs[i].id = id
    THEN CHOOSE i \in 1..Len(cs) :
             /\ cs[i].id = id
             /\ \A j \in 1..i - 1 : cs[j].id # id
    ELSE 0

\* The first condition, without the company's email_status.
emailedIgnoringCompany(company, user) ==
    user.email_status /\ user.active_status

\* The condition of line 203.
emailed(company, user) ==
    company.email_status /\ user.email_status /\ user.active_status

\* threw: reading email_status of an undefined company raised a TypeError,
\* which ends the forEach with the lists as they were at that point.
RECURSIVE categorizeFrom(_, _, _)
categorizeFrom(us, cs, k) ==
    IF k > Len(us) THEN [companies |-> cs, threw |-> FALSE]
    ELSE LET user == us[k]
             c == find(cs, user.company_id)
         IN  IF c = 0 THEN [companies |-> cs, threw |-> TRUE]
             ELSE IF emailed(cs[c], user)
             THEN categorizeFrom(
                      us, [cs EXCEPT ![c].usersEmailed = Append(@, user.ref)],
                      k + 1)
             ELSE IF user.active_status
             THEN categorizeFrom(
                      us,
                      [cs EXCEPT ![c].usersNotEmailed = Append(@, user.ref)],
                      k + 1)
             ELSE categorizeFrom(us, cs, k + 1)

categorizeUsersByEmailStatus(us, cs) == categorizeFrom(us, cs, 1)

(***************************************************************************)
(* Rendering.  The output file is the sequence of the chunks appended to   *)
(* it; every chunk is one line.                                            *)
(***************************************************************************)
Line(kind, str, num, last, email) ==
    [kind |-> kind, str |-> str, num |-> num, last |-> last, email |-> email]

BlankLine == Line("Blank", "", 0, <<>>, <<>>)

outputUser(user, company) ==
    << Line("User", user.first_name, 0, user.last_name, user.email),
       Line("PreviousTokenBalance", "", user.tokens - company.top_up,
            <<>>, <<>>),
       Line("NewTokenBalance", "", user.tokens, <<>>, <<>>) >>

RECURSIVE outputUsers(_, _, _)
outputUsers(refs, us, company) ==
    IF refs = <<>> THEN <<>>
    ELSE outputUser(UserOf(us, Head(refs)), company)
         \o outputUsers(Tail(refs), us, company)

outputCompany(company, us) ==
    << Line("CompanyId", "", company.id, <<>>, <<>>),
       Line("CompanyName", company.name, 0, <<>>, <<>>),
       Line("UsersEmailed", "", 0, <<>>, <<>>) >>
    \o outputUsers(company.usersEmailed, us, company)
    \o << Line("UsersNotEmailed", "", 0, <<>>, <<>>) >>
    \o outputUsers(company.usersNotEmailed, us, company)
    \o << Line("Total", company.name, company.top_up * Len(company.users),
               <<>>, <<>>),
          BlankLine >>

\* A test that looks at usersEmailed only.
hasBlockEmailedOnly(company) == Len(company.usersEmailed) > 0

\* The condition of line 269.
hasBlock(company) ==
    Len(company.usersEmailed) > 0 \/ Len(company.usersNotEmailed) > 0

RECURSIVE outputCompanies(_, _)
outputCompanies(cs, us) ==
    IF cs = <<>> THEN <<>>
    ELSE (IF hasBlock(Head(cs)) THEN outputCompany(Head(cs), us) ELSE <<>>)
         \o outputCompanies(Tail(cs), us)

outputResults(cs, us) == <<BlankLine>> \o outputCompanies(cs, us)

(***************************************************************************)
(* verifyOutput.                                                           *)
(***************************************************************************)
\* String.prototype.split("\n")
RECURSIVE split(_)
split(t) ==
    IF \A i \in 1..Len(t) : t[i] # NL THEN <<t>>
    ELSE LET i == CHOOSE n \in 1..Len(t) :
                      t[n] = NL /\ \A m \in 1..n - 1 : t[m] # NL
         IN  <<SubSeq(t, 1, i - 1)>> \o split(SubSeq(t, i + 1, Len(t)))

Report(kind, line, outputLine, exampleLine, exampleDefined) ==
    [kind |-> kind, line |-> line, outputLine |-> outputLine,
     exampleLine |-> exampleLine, exampleDefined |-> exampleDefined]

\* The for loop of lines 290-297; i counts from 1, as the printed i + 1.
\* exampleDefined is FALSE when exampleOutputLines[i] is undefined.
RECURSIVE firstDifference(_, _, _)
firstDifference(outputLines, exampleOutputLines, i) ==
    IF i > Len(outputLines) THEN Report("nothing", 0, <<>>, <<>>, TRUE)
    ELSE IF i > Len(exampleOutputLines)
    THEN Report("difference", i, outputLines[i], <<>>, FALSE)
    ELSE IF outputLines[i] # exampleOutputLines[i]
    THEN Report("difference", i, outputLines[i], exampleOutputLines[i], TRUE)
    ELSE firstDifference(outputLines, exampleOutputLines, i + 1)

verifyOutput(out, example) ==
    IF out = example THEN Report("correct", 0, <<>>, <<>>, TRUE)
    ELSE firstDifference(split(out), split(example), 1)

(***************************************************************************)
(* The run of the program, statement by statement of the module body.      *)
(***************************************************************************)
PipelineInit(rawCompanies, rawUsers, maxUsers) ==
    /\ readCompanies \in SeqsUpTo(rawCompanies, MaxCompanies)
    /\ readUsers \in SeqsUpTo(rawUsers, maxUsers)
    /\ companies = <<>>
    /\ users = <<>>
    /\ pc = "start"
    /\ exitCode = 0
    /\ exitVia = "none"
    /\ outputWritten = FALSE
    /\ outputFile = <<>>
    /\ vpc = "idle"
    /\ output = <<>>
    /\ exampleOutput = <<>>
    /\ report = Report("none", 0, <<>>, <<>>, TRUE)

Init == PipelineInit(ValidRawCompanies, ValidRawUsers, MaxUsers)

InitValidation == PipelineInit(CheckedRawCompanies, CheckedRawUsers, MaxUsers)

InitSort == PipelineInit(SortRawCompanies, SortRawUsers, MaxSortUsers)

\* process.exit(1), from validateSchema or from the catch block.
Exit(via) ==
    /\ pc' = "exit"
    /\ exitCode' = 1
    /\ exitVia' = via

\* Lines 154-157: readCompanies.map(company => new Company(...)).
ConstructCompanies ==
    /\ pc = "start"
    /\ IF \E i \in 1..Len(readCompanies) :
              validateSchema(companySchema(readCompanies[i]))
       THEN /\ Exit("validateSchema")
            /\ UNCHANGED companies
       ELSE /\ companies' = [i \in 1..Len(readCompanies) |->
                                Company(i, readCompanies[i])]
            /\ pc' = "companies"
            /\ UNCHANGED <<exitCode, exitVia>>
    /\ UNCHANGED <<readCompanies, readUsers, users, outputWritten,
                   outputFile, verifierVars>>

\* Line 158: readUsers.map(user => new User(user)).
ConstructUsers ==
    /\ pc = "companies"
    /\ IF \E i \in 1..Len(readUsers) :
              validateSchema(userSchema(readUsers[i]))
       THEN /\ Exit("validateSchema")
            /\ UNCHANGED users
       ELSE /\ users' = [i \in 1..Len(readUsers) |-> User(i, readUsers[i])]
            /\ pc' = "users"
            /\ UNCHANGED <<exitCode, exitVia>>
    /\ UNCHANGED <<readCompanies, readUsers, companies, outputWritten,
                   outputFile, verifierVars>>

\* Line 160: companies.forEach(company => company.addUsers(users)); every
\* company's users is the users array itself.
AddUsers ==
    /\ pc = "users"
    /\ companies' = [i \in 1..Len(companies) |->
                        [companies[i] EXCEPT !.users = Refs(users)]]
    /\ pc' = "added"
    /\ UNCHANGED <<readCompanies, readUsers, users, exitCode, exitVia,
                   outputWritten, outputFile, verifierVars>>

\* Line 303: sortData(companies, users).  Both arrays are sorted in place;
\* each company's users still is the users array, and shows its new order.
SortData ==
    /\ pc = "added"
    /\ users' = sortUsers(users)
    /\ companies' = LET sorted == sortCompanies(companies)
                    IN  [i \in 1..Len(sorted) |->
                            [sorted[i] EXCEPT !.users = Refs(users')]]
    /\ pc' = "sorted"
    /\ UNCHANGED <<readCompanies, readUsers, exitCode, exitVia,
                   outputWritten, outputFile, verifierVars>>

\* processCompaniesAndUsers inside a try block that swallows the exception.
ProcessSwallowingError ==
    /\ pc = "sorted"
    /\ LET linked == linkAndTopUp(companies, users, 1)
           categorized ==
               categorizeUsersByEmailStatus(linked.users, linked.companies)
       IN  /\ users' = linked.users
           /\ companies' = categorized.companies
           /\ pc' = "processed"
           /\ UNCHANGED <<exitCode, exitVia>>
    /\ UNCHANGED <<readCompanies, readUsers, outputWritten, outputFile,
                   verifierVars>>

\* Line 304: processCompaniesAndUsers(companies, users); an exception is
\* caught at line 307 and ends the process.
ProcessCompaniesAndUsers ==
    /\ pc = "sorted"
    /\ LET linked == linkAndTopUp(companies, users, 1)
           categorized ==
               categorizeUsersByEmailStatus(linked.users, linked.companies)
       IN  /\ users' = linked.users
           /\ companies' = categorized.companies
           /\ IF categorized.threw
              THEN Exit("catch")
              ELSE /\ pc' = "processed"
                   /\ UNCHANGED <<exitCode, exitVia>>
    /\ UNCHANGED <<readCompanies, readUsers, outputWritten, outputFile,
                   verifierVars>>

\* Line 305: outputResults(companies).
OutputResults ==
    /\ pc = "processed"
    /\ outputWritten' = TRUE
    /\ outputFile' = outputResults(companies, users)
    /\ pc' = "rendered"
    /\ UNCHANGED <<readCompanies, readUsers, companies, users, exitCode,
                   exitVia, verifierVars>>

Next ==
    \/ ConstructCompanies
    \/ ConstructUsers
    \/ AddUsers
    \/ SortData
    \/ ProcessCompaniesAndUsers
    \/ OutputResults

Spec == Init /\ [][Next]_vars

SpecValidation == InitValidation /\ [][Next]_vars

SpecSort == InitSort /\ [][Next]_vars

(***************************************************************************)
(* verifyOutput on its own: the output file as outputResults leaves it (it *)
(* begins and ends with a newline) against any reference text.             *)
(***************************************************************************)
Chars == {NL, 97, 98}

OutputTexts ==
    {<<NL>>} \cup {<<NL>> \o t \o <<NL>> : t \in SeqsUpTo(Chars, MaxTextLen - 1)}

ExampleTexts == SeqsUpTo(Chars, MaxTextLen + 1)

InitVerify ==
    /\ readCompanies = <<>>
    /\ readUsers = <<>>
    /\ companies = <<>>
    /\ users = <<>>
    /\ pc = "idle"
    /\ exitCode = 0
    /\ exitVia = "none"
    /\ outputWritten = TRUE
    /\ outputFile = <<>>
    /\ vpc = "start"
    /\ output \in OutputTexts
    /\ exampleOutput \in ExampleTexts
    /\ report = Report("none", 0, <<>>, <<>>, TRUE)

\* Line 306: verifyOutput(outputFilePath, "./example_output.txt").
VerifyOutput ==
    /\ vpc = "start"
    /\ report' = verifyOutput(output, exampleOutput)
    /\ vpc' = "done"
    /\ UNCHANGED <<pipelineVars, output, exampleOutput>>

NextVerify == VerifyOutput

SpecVerify == InitVerify /\ [][NextVerify]_vars

(***************************************************************************)
(* Properties.                                                             *)
(***************************************************************************)
Processed == pc \in {"processed", "rendered"}

Occurrences(s, r) == Cardinality({n \in 1..Len(s) : s[n] = r})

CompanyRange == 1..Len(companies)

UserRange == 1..Len(users)

\* C1: once processCompaniesAndUsers has run, every company's usersEmailed
\* and usersNotEmailed are disjoint and together hold exactly the users of
\* the company's users list.
C1_EmailListsPartitionUsers ==
    Processed =>
        \A i \in CompanyRange :
            LET c == companies[i]
            IN  /\ Range(c.usersEmailed) \cap Range(c.usersNotEmailed) = {}
                /\ Range(c.usersEmailed) \cup Range(c.usersNotEmailed)
                       = Range(c.users)

\* Some user names a company_id that no company has.
UnresolvedAt(k) ==
    \A i \in 1..Len(readCompanies) :
        readCompanies[i].id # readUsers[k].company_id

UnresolvedUser == \E k \in 1..Len(readUsers) : UnresolvedAt(k)

\* The positions at which the run has neither stopped nor completed
\* processCompaniesAndUsers; each has its next statement enabled.
BeforeProcessed == {"start", "companies", "users", "added", "sorted"}

\* C2: when some user's company_id equals no company's id, the output file
\* is never truncated or written, processCompaniesAndUsers never completes
\* and outputResults never runs, and the run stops only by exiting with
\* code 1.
C2_UnresolvedCompanyIsFatal ==
    UnresolvedUser =>
        /\ ~outputWritten
        /\ outputFile = <<>>
        /\ pc \in BeforeProcessed \cup {"exit"}
        /\ pc = "exit" => exitCode = 1

\* C2 witness: the run died in the catch block although every user with an
\* unresolved company_id is inactive.
C2_Witness ==
    /\ UnresolvedUser
    /\ exitVia = "catch"
    /\ \A k \in 1..Len(readUsers) :
           UnresolvedAt(k) => ~readUsers[k].active_status

\* C3: when rendering starts, an active user's tokens are its input tokens
\* plus the top_up of a company with its company_id, and an inactive
\* user's tokens are its input tokens.
C3_ToppedUpExactlyOnce ==
    pc = "processed" =>
        \A k \in UserRange :
            LET u == users[k]
                before == readUsers[u.ref].tokens
            IN  IF u.active_status
                THEN \E i \in CompanyRange :
                         /\ companies[i].id = u.company_id
                         /\ u.tokens = before + companies[i].top_up
                ELSE u.tokens = before

\* C4: after categorization an active user is, exactly once, in one list of
\* one company with its company_id: usersEmailed when that company's and
\* the user's email_status are both true, usersNotEmailed otherwise; an
\* inactive user is in no list.
C4_EligibilityRule ==
    pc = "processed" =>
        \A k \in UserRange :
            LET u == users[k]
                inE(i) == Occurrences(companies[i].usersEmailed, u.ref)
                inN(i) == Occurrences(companies[i].usersNotEmailed, u.ref)
            IN  IF u.active_status
                THEN \E i \in CompanyRange :
                         /\ companies[i].id = u.company_id
                         /\ IF companies[i].email_status /\ u.email_status
                            THEN inE(i) = 1 /\ inN(i) = 0
                            ELSE inE(i) = 0 /\ inN(i) = 1
                         /\ \A j \in CompanyRange \ {i} :
                                inE(j) = 0 /\ inN(j) = 0
                ELSE \A i \in CompanyRange : inE(i) = 0 /\ inN(i) = 0

\* C4 witness: a user who opted in sits in usersNotEmailed because the
\* company does not email, and another user is inactive.
C4_Witness ==
    /\ pc = "processed"
    /\ \E i \in CompanyRange :
           \E r \in Range(companies[i].usersNotEmailed) :
               UserOf(users, r).email_status
    /\ \E k \in UserRange : ~users[k].active_status

UsersListsLinked ==
    \A i \in CompanyRange :
        \A r \in Range(companies[i].users) :
            /\ UserOf(users, r).active_status
            /\ UserOf(users, r).company_id = companies[i].id

\* C5 as stated: in every state, a company's users list holds only active
\* users whose company_id is the company's id.
C5_UsersListAlwaysLinked == UsersListsLinked

\* C5 amended: from the link step of processCompaniesAndUsers on (also when
\* its categorization throws), a company's users list holds only active
\* users whose company_id is the company's id.
C5_UsersListLinkedAfterLinking ==
    (Processed \/ exitVia = "catch") => UsersListsLinked

\* C5 witness: linking has run over an inactive user and over a user of
\* another company, and some company has users.
C5_Witness ==
    /\ pc = "processed"
    /\ \E k \in UserRange : ~users[k].active_status
    /\ \E i \in CompanyRange :
           /\ companies[i].users # <<>>
           /\ \E k \in UserRange : users[k].company_id # companies[i].id

CompanyIdLines == SelectSeq(outputFile, LAMBDA l : l.kind = "CompanyId")

EmailLists(c) == {c.usersEmailed, c.usersNotEmailed}

\* The lines that open a list of user blocks.
ListHeaders == {"UsersEmailed", "UsersNotEmailed"}

\* C6: the report's company blocks are in ascending id order, and in every
\* usersEmailed and usersNotEmailed list last names ascend, users of equal
\* last_name staying in input order; so do the last names printed under
\* each list header of the report.
C6_ReportOrder ==
    pc = "rendered" =>
        /\ \A m, n \in 1..Len(CompanyIdLines) :
               m < n => CompanyIdLines[m].num <= CompanyIdLines[n].num
        /\ \A i \in CompanyRange :
               \A list \in EmailLists(companies[i]) :
                   \A m, n \in 1..Len(list) :
                       m < n =>
                           LET a == UserOf(users, list[m])
                               b == UserOf(users, list[n])
                           IN  /\ ~StrLess(b.last_name, a.last_name)
                               /\ a.last_name = b.last_name => a.ref < b.ref
        /\ \A m, n \in 1..Len(outputFile) :
               /\ m < n
               /\ outputFile[m].kind = "User"
               /\ outputFile[n].kind = "User"
               /\ \A k \in m..n : outputFile[k].kind \notin ListHeaders
               => ~StrLess(outputFile[n].last, outputFile[m].last)

\* C6 witness: the companies were given in descending id order, and one
\* list holds two users of equal last_name and a user moved ahead of an
\* earlier input.
C6_Witness ==
    /\ pc = "rendered"
    /\ Len(readCompanies) = 2
    /\ readCompanies[1].id > readCompanies[2].id
    /\ \E i \in CompanyRange :
           \E list \in EmailLists(companies[i]) :
               /\ \E m, n \in 1..Len(list) :
                      /\ m < n
                      /\ UserOf(users, list[m]).last_name
                             = UserOf(users, list[n]).last_name
               /\ \E m, n \in 1..Len(list) : m < n /\ list[m] > list[n]

NonEmptyCompanies ==
    SelectSeq(companies,
              LAMBDA c : c.usersEmailed # <<>> \/ c.usersNotEmailed # <<>>)

\* C7: the report has one block per company with a non-empty usersEmailed
\* or usersNotEmailed, in order, and none for the others; when no company
\* has a user it is the single blank line.
C7_BlocksForNonEmptyCompanies ==
    pc = "rendered" =>
        /\ [n \in 1..Len(CompanyIdLines) |-> CompanyIdLines[n].num]
               = [n \in 1..Len(NonEmptyCompanies) |-> NonEmptyCompanies[n].id]
        /\ (\A i \in CompanyRange : companies[i].users = <<>>)
               => outputFile = <<BlankLine>>

\* C7 witness: a company gets its block with nobody emailed, and another
\* company is skipped.
C7_Witness ==
    /\ pc = "rendered"
    /\ \E i \in CompanyRange :
           /\ companies[i].usersEmailed = <<>>
           /\ companies[i].usersNotEmailed # <<>>
    /\ \E i \in CompanyRange :
           /\ companies[i].usersEmailed = <<>>
           /\ companies[i].usersNotEmailed = <<>>

InvalidRecord ==
    \/ \E i \in 1..Len(readCompanies) : ~companySchema(readCompanies[i])
    \/ \E k \in 1..Len(readUsers) : ~userSchema(readUsers[k])

\* C8: with a record that fails its schema, the output file is never
\* truncated or written, no step after construction runs, and the run can
\* only stop in validateSchema's exit with code 1.
C8_InvalidRecordHalts ==
    InvalidRecord =>
        /\ ~outputWritten
        /\ outputFile = <<>>
        /\ pc \in {"start", "companies", "exit"}
        /\ users = <<>>
        /\ pc = "exit" => exitVia = "validateSchema"
        /\ (~ENABLED Next => exitCode = 1)

\* C8 witness: the companies were constructed and a user record then ended
\* the run.
C8_Witness ==
    /\ pc = "exit"
    /\ exitVia = "validateSchema"
    /\ companies # <<>>
    /\ \E k \in 1..Len(readUsers) : ~userSchema(readUsers[k])

\* The "Company Id" line that opens the block of line i.
BlockStart(i) ==
    CHOOSE j \in 1..i :
        /\ outputFile[j].kind = "CompanyId"
        /\ \A m \in j + 1..i : outputFile[m].kind # "CompanyId"

UserBlocks(i) ==
    Cardinality({j \in BlockStart(i)..i : outputFile[j].kind = "User"})

\* C9: every summary line of the report shows the company's top_up times
\* the number of user blocks printed in that company's block.
C9_TotalMatchesUserBlocks ==
    pc = "rendered" =>
        \A i \in 1..Len(outputFile) :
            outputFile[i].kind = "Total" =>
                \E n \in CompanyRange :
                    LET c == companies[n]
                    IN  /\ c.id = outputFile[BlockStart(i)].num
                        /\ c.usersEmailed # <<>> \/ c.usersNotEmailed # <<>>
                        /\ UserBlocks(i)
                               = Len(c.usersEmailed) + Len(c.usersNotEmailed)
                        /\ outputFile[i].num = c.top_up * UserBlocks(i)

\* C9 witness: a summary line for two user blocks and a positive top_up.
C9_Witness ==
    /\ pc = "rendered"
    /\ \E i \in 1..Len(outputFile) :
           /\ outputFile[i].kind = "Total"
           /\ outputFile[i].num > 0
           /\ UserBlocks(i) = 2

\* The first line at which two texts differ.
FirstDifferingLine(a, b) ==
    LET la == split(a)
        lb == split(b)
        longest == IF Len(la) > Len(lb) THEN Len(la) ELSE Len(lb)
        differs(i) == i > Len(la) \/ i > Len(lb) \/ la[i] # lb[i]
    IN  CHOOSE i \in 1..longest :
            differs(i) /\ \A j \in 1..i - 1 : ~differs(j)

\* C10: when the output differs from the reference, verifyOutput reports
\* the first differing line with both lines' content; it reports no
\* difference only when the texts are identical.
C10_ReportsFirstDifference ==
    vpc = "done" =>
        IF output = exampleOutput THEN report.kind = "correct"
        ELSE LET i == FirstDifferingLine(output, exampleOutput)
             IN  /\ report.kind = "difference"
                 /\ report.line = i
                 /\ i <= Len(split(output))
                 /\ report.outputLine = split(output)[i]
                 /\ report.exampleDefined = (i <= Len(split(exampleOutput)))
                 /\ report.exampleDefined
                        => report.exampleLine = split(exampleOutput)[i]

====
